---- MODULE Spec2Model ----
(***************************************************************************)
(* Model of package deltagolomb (src/deltagolomb.go): the order-zero       *)
(* Exp-Golomb encoder with its 64-bit bit accumulator, the bit-at-a-time   *)
(* decoder with its parse state machine, and the DeltaEncode/DeltaDecode   *)
(* wrappers.  The internal functions add, addZeroBits and bitLen are also  *)
(* called directly, on arguments drawn from sets of inputs.                *)
(*                                                                         *)
(* Representation.  TLC integers are 32 bits wide, so a Go uint/uint64 is  *)
(* modelled as a sequence of 64 bits, element 1 being the most            *)
(* significant bit; shifts and ors are the bitwise operations on that      *)
(* vector (Go semantics: a shift by >= 64 gives 0).  Go int values (the    *)
(* items encoded, the decoder's val) stay TLA+ integers; the decoder's     *)
(* shift is guarded by MaxShiftVal so that val never leaves 31 bits.       *)
(* A 64-bit platform is assumed (uint and int are 64 bits wide).           *)
(***************************************************************************)
EXTENDS Integers, Sequences, FiniteSets, TLC

VARIABLES
    enc,      \* the ExpGolombEncoder: [data, bitsleft, out]
    written,  \* history: the items passed to add, in order
    closed,   \* Close has been called on enc
    todo,     \* number of items the caller may still write
    callErr,  \* whether the last encoder operation reported an error to its caller
    dec,      \* the ExpGolombDecoder: [b, state, val, zeros, nBits]
    r,        \* the decoder's byte source: bytes not yet read
    fed,      \* history: the chunks of bytes put into the source, in order
    rpc,      \* position of the decoder's caller: "none", "idle" or "loop"
    cpos,     \* Read's local cpos
    n,        \* Read's local n = len(out)
    buf,      \* the caller's out []int of the Read call in progress
    decoded,  \* history: the values returned by all Read calls so far
    lastN,    \* count returned by the last Read
    lastErr,  \* error returned by the last Read: "nil" or "EOF"
    dpc,      \* position of the DeltaEncode/DeltaDecode caller
    dStart,   \* DeltaEncode's start / DeltaDecode's base
    dData,    \* DeltaEncode's data
    dBytes,   \* the byte slice DeltaEncode returned
    dRes,     \* the slice DeltaDecode returned
    fn,       \* the internal function a direct caller has called, or "none"
    arg,      \* the argument of that call
    ret       \* what that call returned

vars == <<enc, written, closed, todo, callErr, dec, r, fed, rpc, cpos, n, buf,
          decoded, lastN, lastErr, dpc, dStart, dData, dBytes, dRes,
          fn, arg, ret>>

encVars   == <<enc, written, closed, todo, callErr>>
decVars   == <<dec, r, fed, rpc, cpos, n, buf, decoded, lastN, lastErr>>
deltaVars == <<dpc, dStart, dData, dBytes, dRes>>
callVars  == <<fn, arg, ret>>

---------------------------------------------------------------------------
(* Program constants *)

egWordBits == 64

COUNTING_ZEROS == 0
SHIFTING_BITS == 1
READING_SIGN == 2

---------------------------------------------------------------------------
(* Bounds of the model *)

\* largest number of zero items already written when an encoder run starts
MaxPre == 64
\* items written after that in an encoder run
MaxEncVals == 2
\* items written in an encode-then-decode run
MaxVals == 2
\* longest slice handed to one Write call
MaxWrite == 2
\* longest out buffer handed to one Read call
MaxBuf == 2
\* bytes fed to a decoder reading an arbitrary byte string
MaxBytes == 2
\* longest data slice handed to DeltaEncode
MaxDelta == 3
\* items written before addZeroBits is called directly
MaxZeroVals == 1
\* bitLen is called on every x from 0 to this
MaxDense == 256

\* the documented edge of the input domain, 2^31 - 2
MaxItem == 2147483646
\* the decoder's shift is modelled while val << 1 stays below 2^31
MaxShiftVal == (2 ^ 30) - 1

\* items written in encode-then-decode runs
Values == {0, 1, -1, 2, -2, 5, -6, MaxItem, -MaxItem}
\* items written in encoder runs
EncValues == {0, 1, -1, 2, -2, 5, -MaxItem}
\* bytes of the arbitrary byte strings
Bytes == {0, 1, 37, 128, 163, 255}
\* pairs of items whose codewords are compared
CodeValues == {0, 1, -1, 2, -2, 3, -3, 4, -4, 5, 6, -6, 7, -7, 8, 14, 15, -15,
               16, 1073741822, 1073741823, -1073741823, MaxItem - 1, MaxItem,
               -MaxItem}
\* arguments of bitLen: a dense range, then each power of two up to 2^30
\* with its two neighbours, then 2^31 - 1 = |v| + 1 for the largest item
BitLenInputs ==
    (0..MaxDense)
      \cup UNION {{(2 ^ k) - 1, 2 ^ k, (2 ^ k) + 1} : k \in 1..30}
      \cup {MaxItem, MaxItem + 1}
\* data values of the delta wrapper when its output is cut short
CutValues == {-7, 0, 7, 9, 10, 11}
\* lengths of the zero runs handed to addZeroBits
ZeroRuns == {0, 1, 2, 7, 30, 63, 64, 65, 127, 128, 130}
\* start values and data values of the delta wrapper
Starts == {0, 10, -3}
DeltaValues == {9, 10, 11, 14}

---------------------------------------------------------------------------
(* uint / uint64 as bit vectors, most significant bit first *)

Word == 1..egWordBits

\* uint(x) for an int 0 <= x < 2^31
Uint(x) ==
    SubSeq([i \in Word |-> IF egWordBits - i > 30 THEN 0
                           ELSE (x \div (2 ^ (egWordBits - i))) % 2],
           1, egWordBits)

Uint0 == Uint(0)

\* k bits 0
ZeroBits(k) == SubSeq(Uint0, 1, k)

\* u << k
Shl(u, k) ==
    IF k >= egWordBits THEN Uint0 ELSE SubSeq(u, k + 1, egWordBits) \o ZeroBits(k)

\* u >> k
Shr(u, k) ==
    IF k >= egWordBits THEN Uint0 ELSE ZeroBits(k) \o SubSeq(u, 1, egWordBits - k)

\* u | v
Or(u, v) ==
    SubSeq([i \in Word |-> IF u[i] = 1 \/ v[i] = 1 THEN 1 ELSE 0], 1, egWordBits)

\* binary.BigEndian.PutUint64: the eight bytes of u, most significant first
PutUint64(u) ==
    [j \in 1..8 |->
        LET o == 8 * (j - 1) IN
        128 * u[o + 1] + 64 * u[o + 2] + 32 * u[o + 3] + 16 * u[o + 4]
          + 8 * u[o + 5] + 4 * u[o + 6] + 2 * u[o + 7] + u[o + 8]]

---------------------------------------------------------------------------
(* The byte sink (byteWriter): bytes accepted so far, the number of Flush  *)
(* calls that succeeded, whether the sink is failing, and the number of    *)
(* calls that returned an error.                                           *)

NewSink == [bytes |-> <<>>, flushes |-> 0, broken |-> FALSE, errs |-> 0]

\* out.Write(p)
SinkWrite(o, p) ==
    IF o.broken THEN [o EXCEPT !.errs = @ + 1]
    ELSE [o EXCEPT !.bytes = @ \o p]

\* out.Flush()
SinkFlush(o) ==
    IF o.broken THEN [o EXCEPT !.errs = @ + 1]
    ELSE [o EXCEPT !.flushes = @ + 1]

---------------------------------------------------------------------------
(* The encoder *)

NewExpGolombEncoder == [data |-> Uint0, bitsleft |-> egWordBits, out |-> NewSink]

\* emitPartialBits writing the whole word, as emitBits does
emitPartialBitsWholeWord(s) ==
    [data |-> Uint0, bitsleft |-> egWordBits,
     out |-> SinkWrite(s.out, PutUint64(s.data))]

emitPartialBits(s) ==
    LET bs == PutUint64(s.data)
        nbytes == ((egWordBits - s.bitsleft) + 7) \div 8
        o == IF nbytes > 0 THEN SinkWrite(s.out, SubSeq(bs, 1, nbytes)) ELSE s.out
    IN [data |-> Uint0, bitsleft |-> egWordBits, out |-> o]

\* emitBits leaving the word it wrote in the accumulator
emitBitsKeepData(s) ==
    [data |-> s.data, bitsleft |-> egWordBits,
     out |-> SinkWrite(s.out, PutUint64(s.data))]

emitBits(s) ==
    [data |-> Uint0, bitsleft |-> egWordBits,
     out |-> SinkWrite(s.out, PutUint64(s.data))]

\* addBits losing the bits that do not fit the current word
addBitsNoCarry(s, bits, nbits) ==
    IF nbits < s.bitsleft
    THEN [s EXCEPT !.data = Or(s.data, Shl(bits, s.bitsleft - nbits)),
                   !.bitsleft = s.bitsleft - nbits]
    ELSE LET filled == [s EXCEPT !.data = Or(s.data, Shr(bits, nbits - s.bitsleft))]
             rest == nbits - s.bitsleft
             e == emitBits(filled)
         IN [e EXCEPT !.bitsleft = egWordBits - rest]

addBits(s, bits, nbits) ==
    IF nbits < s.bitsleft
    THEN [s EXCEPT !.data = Or(s.data, Shl(bits, s.bitsleft - nbits)),
                   !.bitsleft = s.bitsleft - nbits]
    ELSE LET filled == [s EXCEPT !.data = Or(s.data, Shr(bits, nbits - s.bitsleft))]
             rest == nbits - s.bitsleft
             e == emitBits(filled)
         IN [e EXCEPT !.data = Shl(bits, egWordBits - rest),
                      !.bitsleft = egWordBits - rest]

\* the loop of addZeroBits stopping one word early
RECURSIVE zeroWordsStrict(_, _)
zeroWordsStrict(s, nzeros) ==
    IF nzeros > egWordBits
    THEN zeroWordsStrict(emitBits(s), nzeros - egWordBits)
    ELSE [s EXCEPT !.bitsleft = s.bitsleft - nzeros]

\* the loop of addZeroBits: one emitBits per whole word of zeros
RECURSIVE zeroWords(_, _)
zeroWords(s, nzeros) ==
    IF nzeros >= egWordBits
    THEN zeroWords(emitBits(s), nzeros - egWordBits)
    ELSE [s EXCEPT !.bitsleft = s.bitsleft - nzeros]

addZeroBits(s, nzeros) ==
    IF nzeros < s.bitsleft
    THEN [s EXCEPT !.bitsleft = s.bitsleft - nzeros]
    ELSE zeroWords(emitBits(s), nzeros - s.bitsleft)

\* bitLen with > for >= in its threshold tests
bitLenStrict(x) ==
    LET x0 == IF x - 1 > 2147483647 THEN (x \div 65536) \div 65536 ELSE x
        n0 == IF x - 1 > 2147483647 THEN 32 ELSE 0
        x1 == IF x0 > 32768 THEN x0 \div 65536 ELSE x0
        n1 == IF x0 > 32768 THEN n0 + 16 ELSE n0
        x2 == IF x1 > 128 THEN x1 \div 256 ELSE x1
        n2 == IF x1 > 128 THEN n1 + 8 ELSE n1
        x3 == IF x2 > 8 THEN x2 \div 16 ELSE x2
        n3 == IF x2 > 8 THEN n2 + 4 ELSE n2
        x4 == IF x3 > 2 THEN x3 \div 4 ELSE x3
        n4 == IF x3 > 2 THEN n3 + 2 ELSE n3
    IN IF x4 >= 1 THEN n4 + 1 ELSE n4

\* bitLen for 0 <= x < 2^31; the first test, x > 1<<31, is written x - 1 > 2^31 - 1
bitLen(x) ==
    LET x0 == IF x - 1 > 2147483647 THEN (x \div 65536) \div 65536 ELSE x
        n0 == IF x - 1 > 2147483647 THEN 32 ELSE 0
        x1 == IF x0 >= 32768 THEN x0 \div 65536 ELSE x0
        n1 == IF x0 >= 32768 THEN n0 + 16 ELSE n0
        x2 == IF x1 >= 128 THEN x1 \div 256 ELSE x1
        n2 == IF x1 >= 128 THEN n1 + 8 ELSE n1
        x3 == IF x2 >= 8 THEN x2 \div 16 ELSE x2
        n3 == IF x2 >= 8 THEN n2 + 4 ELSE n2
        x4 == IF x3 >= 2 THEN x3 \div 4 ELSE x3
        n4 == IF x3 >= 2 THEN n3 + 2 ELSE n3
    IN IF x4 >= 1 THEN n4 + 1 ELSE n4

\* the general algorithm with the sign bit inverted
addGeneralSignSlip(s, item) ==
    LET sign == IF item < 0 THEN 0 ELSE 1
        abs == IF item < 0 THEN -item ELSE item
        uitem == abs + 1
        nbits == bitLen(uitem) - 1
        z == addZeroBits(s, nbits)
    IN addBits(z, Or(Shl(Uint(uitem), 1), Uint(sign)), nbits + 2)

\* the general algorithm with a unary prefix one zero short
addGeneralShortPrefix(s, item) ==
    LET sign == IF item < 0 THEN 1 ELSE 0
        abs == IF item < 0 THEN -item ELSE item
        uitem == abs + 1
        nbits == bitLen(uitem) - 1
        z == addZeroBits(s, nbits - 1)
    IN addBits(z, Or(Shl(Uint(uitem), 1), Uint(sign)), nbits + 2)

\* lines 227-239 of add: the general algorithm
addGeneral(s, item) ==
    LET sign == IF item < 0 THEN 1 ELSE 0
        abs == IF item < 0 THEN -item ELSE item
        uitem == abs + 1
        nbits == bitLen(uitem) - 1
        z == addZeroBits(s, nbits)
    IN addBits(z, Or(Shl(Uint(uitem), 1), Uint(sign)), nbits + 2)

\* add with a wrong table entry for 2
addTableSlip(s, item) ==
    CASE item = 0  -> addBits(s, Uint(1), 1)
      [] item = 1  -> addBits(s, Uint(4), 4)
      [] item = -1 -> addBits(s, Uint(5), 4)
      [] item = 2  -> addBits(s, Uint(7), 4)
      [] item = -2 -> addBits(s, Uint(7), 4)
      [] OTHER     -> addGeneral(s, item)

add(s, item) ==
    CASE item = 0  -> addBits(s, Uint(1), 1)
      [] item = 1  -> addBits(s, Uint(4), 4)
      [] item = -1 -> addBits(s, Uint(5), 4)
      [] item = 2  -> addBits(s, Uint(6), 4)
      [] item = -2 -> addBits(s, Uint(7), 4)
      [] OTHER     -> addGeneral(s, item)

\* the loop of Write running from the last item to the first
RECURSIVE addAllBackwards(_, _)
addAllBackwards(s, ilist) ==
    IF ilist = <<>> \/ s.bitsleft = 0 THEN s
    ELSE addAllBackwards(add(s, ilist[Len(ilist)]), SubSeq(ilist, 1, Len(ilist) - 1))

\* the loop of Write: add for each item of ilist, in order (bitsleft is never
\* 0: the test only makes TLC evaluate s before it descends, which keeps its
\* evaluation stack shallow on long slices)
RECURSIVE addAll(_, _)
addAll(s, ilist) ==
    IF ilist = <<>> \/ s.bitsleft = 0 THEN s
    ELSE addAll(add(s, Head(ilist)), Tail(ilist))

\* Close writing the accumulator as a whole word, pending bits or not
closeEncWholeWord(s) ==
    LET p == emitBits(s)
    IN [p EXCEPT !.out = SinkFlush(p.out)]

\* the body of Close
closeEnc(s) ==
    LET p == IF s.bitsleft # egWordBits THEN emitPartialBits(s) ELSE s
    IN [p EXCEPT !.out = SinkFlush(p.out)]

---------------------------------------------------------------------------
(* The decoder *)

\* the zero value of the struct, as NewExpGolombDecoder leaves it
NewExpGolombDecoder ==
    [b |-> 0, state |-> COUNTING_ZEROS, val |-> 0, zeros |-> 0, nBits |-> 0]

\* the bits of s.b taken from the least significant end
bitOfLsbFirst(d) == (d.b \div (2 ^ (8 - d.nBits))) % 2

\* (s.b >> uint(s.nBits - 1)) & 0x01
bitOf(d) == (d.b \div (2 ^ (d.nBits - 1))) % 2

\* a successful s.r.ReadByte(): the byte becomes s.b, s.nBits = 8
loadByte(d, c) == [d EXCEPT !.b = c, !.nBits = 8]

\* the switch on s.state for one bit; emit is what the step stores in out
parseBit(d, bit) ==
    CASE d.state = COUNTING_ZEROS ->
           IF bit = 0
           THEN [d |-> [d EXCEPT !.zeros = @ + 1], emit |-> <<>>]
           ELSE IF d.zeros = 0
                THEN [d |-> d, emit |-> <<0>>]
                ELSE [d |-> [d EXCEPT !.state = SHIFTING_BITS, !.val = 1],
                      emit |-> <<>>]
      [] d.state = SHIFTING_BITS ->
           LET v == 2 * d.val + bit
               z == d.zeros - 1
           IN IF z = 0
              THEN [d |-> [d EXCEPT !.val = v - 1, !.zeros = z,
                                    !.state = COUNTING_ZEROS],
                    emit |-> <<v - 1>>]
              ELSE [d |-> [d EXCEPT !.val = v, !.zeros = z], emit |-> <<>>]
      [] d.state = READING_SIGN ->
           LET v == IF bit = 1 THEN -d.val ELSE d.val
           IN [d |-> [d EXCEPT !.val = v, !.state = COUNTING_ZEROS],
               emit |-> <<v>>]

\* lines 146-179: take the next bit of s.b and run the switch on it
stepBit(d) == parseBit([d EXCEPT !.nBits = @ - 1], bitOf(d))

\* one whole Read call on decoder d with source src and len(out) = k;
\* o is the filled part of out, so cpos = Len(o)
RECURSIVE readLoop(_, _, _, _)
readLoop(d, src, o, k) ==
    IF d.nBits = 0
    THEN IF src = <<>>
         THEN [d |-> d, src |-> src, out |-> o, err |-> "EOF"]
         ELSE readLoop(loadByte(d, Head(src)), Tail(src), o, k)
    ELSE IF Len(o) >= k
         THEN [d |-> d, src |-> src, out |-> o, err |-> "nil"]
         ELSE LET s == stepBit(d) IN readLoop(s.d, src, o \o s.emit, k)

---------------------------------------------------------------------------
(* The delta wrapper *)

\* the loop of DeltaEncode: egs.Write([]int{i - prev}) for each i of data
RECURSIVE deltaEncodeLoop(_, _, _)
deltaEncodeLoop(egs, prev, data) ==
    IF data = <<>> THEN egs
    ELSE deltaEncodeLoop(addAll(egs, <<Head(data) - prev>>), Head(data), Tail(data))

DeltaEncode(start, data) ==
    closeEnc(deltaEncodeLoop(NewExpGolombEncoder, start, data)).out.bytes

\* the loop of DeltaDecode: decoder.Read(tmp) with len(tmp) = 1 until it
\* returns an error
RECURSIVE deltaDecodeLoop(_, _, _, _)
deltaDecodeLoop(d, src, val, res) ==
    LET rd == readLoop(d, src, <<>>, 1)
        got == Len(rd.out) > 0
        val2 == IF got THEN val + rd.out[1] ELSE val
        res2 == IF got THEN Append(res, val2) ELSE res
    IN IF rd.err # "nil" THEN res2
       ELSE deltaDecodeLoop(rd.d, rd.src, val2, res2)

DeltaDecode(base, compressed) ==
    deltaDecodeLoop(NewExpGolombDecoder, compressed, base, <<>>)

---------------------------------------------------------------------------
(* Initial states *)

\* k items 0
Zeros(k) == [i \in 1..k |-> 0]

\* a new encoder on a working sink that has been given k items 0, with
\* budget items still to come
EncoderAfter(k, budget) ==
    /\ enc = addAll(NewExpGolombEncoder, Zeros(k))
    /\ written = Zeros(k)
    /\ closed = FALSE
    /\ todo = budget
    /\ callErr = FALSE

\* the decoder in state st, on an empty source
DecoderAt(st) ==
    /\ dec = NewExpGolombDecoder
    /\ r = <<>>
    /\ fed = <<>>
    /\ rpc = st
    /\ cpos = 0
    /\ n = 0
    /\ buf = <<>>
    /\ decoded = <<>>
    /\ lastN = 0
    /\ lastErr = "nil"

DeltaOff ==
    /\ dpc = "off"
    /\ dStart = 0
    /\ dData = <<>>
    /\ dBytes = <<>>
    /\ dRes = <<>>

\* no internal function has been called directly
CallOff ==
    /\ fn = "none"
    /\ arg = 0
    /\ ret = 0

\* encode, Close, then decode the bytes written
Init == EncoderAfter(0, MaxVals) /\ DecoderAt("none") /\ DeltaOff /\ CallOff

\* the encoder alone, started at every fill level of the accumulator
InitEnc ==
    /\ \E k \in 0..MaxPre : EncoderAfter(k, MaxEncVals)
    /\ DecoderAt("none")
    /\ DeltaOff
    /\ CallOff

\* the decoder alone, on a source that receives arbitrary bytes
InitDec == EncoderAfter(0, 0) /\ DecoderAt("idle") /\ DeltaOff /\ CallOff

\* the delta wrapper on every start value and data slice of the bounds
InitDelta ==
    /\ EncoderAfter(0, 0)
    /\ DecoderAt("none")
    /\ dpc = "start"
    /\ dStart \in Starts
    /\ dData \in UNION {[1..k -> DeltaValues] : k \in 0..MaxDelta}
    /\ dBytes = <<>>
    /\ dRes = <<>>
    /\ CallOff

\* the delta wrapper on data whose encoding will be cut short
InitCut ==
    /\ EncoderAfter(0, 0)
    /\ DecoderAt("none")
    /\ dpc = "start"
    /\ dStart \in Starts
    /\ dData \in UNION {[1..k -> CutValues] : k \in 0..MaxDelta}
    /\ dBytes = <<>>
    /\ dRes = <<>>
    /\ CallOff

\* bitLen is about to be called on an argument
InitLen ==
    /\ EncoderAfter(0, 0)
    /\ DecoderAt("none")
    /\ DeltaOff
    /\ fn = "none"
    /\ arg \in BitLenInputs
    /\ ret = 0

\* add is about to be called on two fresh encoders, once for each item
\* of a pair
InitCode ==
    /\ EncoderAfter(0, 0)
    /\ DecoderAt("none")
    /\ DeltaOff
    /\ fn = "none"
    /\ arg \in CodeValues \X CodeValues
    /\ ret = 0

\* the encoder at every fill level of the accumulator, before addZeroBits
\* is called on it
InitZeros ==
    /\ \E k \in 0..MaxPre : EncoderAfter(k, MaxZeroVals)
    /\ DecoderAt("none")
    /\ DeltaOff
    /\ CallOff

---------------------------------------------------------------------------
(* Encoder operations *)

WriteInt(i) ==
    /\ ~closed
    /\ todo > 0
    /\ enc' = add(enc, i)
    /\ written' = Append(written, i)
    /\ todo' = todo - 1
    /\ callErr' = FALSE
    /\ UNCHANGED <<closed, decVars, deltaVars, callVars>>

Write(ilist) ==
    /\ ~closed
    /\ Len(ilist) <= todo
    /\ enc' = addAll(enc, ilist)
    /\ written' = written \o ilist
    /\ todo' = todo - Len(ilist)
    /\ callErr' = FALSE
    /\ UNCHANGED <<closed, decVars, deltaVars, callVars>>

Close ==
    /\ ~closed
    /\ enc' = closeEnc(enc)
    /\ closed' = TRUE
    /\ callErr' = FALSE
    /\ UNCHANGED <<written, todo, decVars, deltaVars, callVars>>

\* the byte sink starts to fail: every later Write and Flush returns an error
SinkBreaks ==
    /\ ~closed
    /\ ~enc.out.broken
    /\ enc' = [enc EXCEPT !.out.broken = TRUE]
    /\ UNCHANGED <<written, closed, todo, callErr, decVars, deltaVars, callVars>>

\* the slices a caller hands to Write, with items of vs
Slices(vs) == UNION {[1..k -> vs] : k \in 0..MaxWrite}

---------------------------------------------------------------------------
(* Decoder operations *)

\* all bytes of the chunks cs, in order
RECURSIVE Flat(_)
Flat(cs) == IF cs = <<>> THEN <<>> ELSE Head(cs) \o Flat(Tail(cs))

\* NewExpGolombDecoder(bytes.NewBuffer(p)) on the bytes the closed encoder
\* flushed to its sink
Open ==
    /\ rpc = "none"
    /\ closed
    /\ enc.out.flushes > 0
    /\ dec' = NewExpGolombDecoder
    /\ r' = enc.out.bytes
    /\ fed' = IF enc.out.bytes = <<>> THEN <<>> ELSE <<enc.out.bytes>>
    /\ rpc' = "idle"
    /\ UNCHANGED <<cpos, n, buf, decoded, lastN, lastErr, encVars, deltaVars, callVars>>

\* one more byte arrives at the source between two Read calls; it opens a
\* new chunk when the source had signalled exhaustion since the last one
Feed(c) ==
    /\ rpc = "idle"
    /\ Len(Flat(fed)) < MaxBytes
    /\ r' = Append(r, c)
    /\ fed' = IF fed = <<>> \/ (r = <<>> /\ lastErr = "EOF")
              THEN Append(fed, <<c>>)
              ELSE [fed EXCEPT ![Len(fed)] = Append(@, c)]
    /\ UNCHANGED <<dec, rpc, cpos, n, buf, decoded, lastN, lastErr, encVars, deltaVars, callVars>>

\* Read returns (cpos, err)
Return(err) ==
    /\ rpc' = "idle"
    /\ lastN' = cpos
    /\ lastErr' = err
    /\ decoded' = decoded \o SubSeq(buf, 1, cpos)

\* Read starting every call in COUNTING_ZEROS with no zeros counted
ReadForgetful(k) ==
    /\ rpc = "idle"
    /\ rpc' = "loop"
    /\ cpos' = 0
    /\ n' = k
    /\ buf' = [i \in 1..k |-> 0]
    /\ dec' = [dec EXCEPT !.state = COUNTING_ZEROS, !.zeros = 0]
    /\ UNCHANGED <<r, fed, decoded, lastN, lastErr, encVars, deltaVars, callVars>>

\* the caller calls Read(out) with len(out) = k
Read(k) ==
    /\ rpc = "idle"
    /\ rpc' = "loop"
    /\ cpos' = 0
    /\ n' = k
    /\ buf' = [i \in 1..k |-> 0]
    /\ UNCHANGED <<dec, r, fed, decoded, lastN, lastErr, encVars, deltaVars, callVars>>

\* lines 133-141: s.nBits == 0, ask the source for a byte
ReadByte ==
    /\ rpc = "loop"
    /\ dec.nBits = 0
    /\ IF r = <<>>
       THEN /\ Return("EOF")
            /\ UNCHANGED <<dec, r>>
       ELSE /\ dec' = loadByte(dec, Head(r))
            /\ r' = Tail(r)
            /\ UNCHANGED <<rpc, lastN, lastErr, decoded>>
    /\ UNCHANGED <<fed, cpos, n, buf, encVars, deltaVars, callVars>>

\* Read noticing that out is full only after it has taken one more bit
ReadFullAfterBit ==
    /\ rpc = "loop"
    /\ dec.nBits > 0
    /\ cpos >= n
    /\ Return("nil")
    /\ dec' = stepBit(dec).d
    /\ UNCHANGED <<r, fed, cpos, n, buf, encVars, deltaVars, callVars>>

\* lines 143-145: out is full
ReadFull ==
    /\ rpc = "loop"
    /\ dec.nBits > 0
    /\ cpos >= n
    /\ Return("nil")
    /\ UNCHANGED <<dec, r, fed, cpos, n, buf, encVars, deltaVars, callVars>>

\* lines 146-179: one bit
ReadBit ==
    /\ rpc = "loop"
    /\ dec.nBits > 0
    /\ cpos < n
    /\ ~(dec.state = SHIFTING_BITS /\ dec.val > MaxShiftVal)
    /\ LET s == stepBit(dec) IN
         /\ dec' = s.d
         /\ buf' = IF s.emit = <<>> THEN buf ELSE [buf EXCEPT ![cpos + 1] = s.emit[1]]
         /\ cpos' = cpos + Len(s.emit)
    /\ UNCHANGED <<r, fed, rpc, n, decoded, lastN, lastErr, encVars, deltaVars, callVars>>

---------------------------------------------------------------------------
(* Callers of the delta wrapper *)

DeltaEncodeCall ==
    /\ dpc = "start"
    /\ dBytes' = DeltaEncode(dStart, dData)
    /\ dpc' = "encoded"
    /\ UNCHANGED <<dStart, dData, dRes, encVars, decVars, callVars>>

DeltaDecodeCall ==
    /\ dpc = "encoded"
    /\ dRes' = DeltaDecode(dStart, dBytes)
    /\ dpc' = "decoded"
    /\ UNCHANGED <<dStart, dData, dBytes, encVars, decVars, callVars>>

\* DeltaDecode on the first j bytes of what DeltaEncode returned, j short
\* of all of them
DeltaDecodeCut(j) ==
    /\ dpc = "encoded"
    /\ j < Len(dBytes)
    /\ dRes' = DeltaDecode(dStart, SubSeq(dBytes, 1, j))
    /\ arg' = j
    /\ dpc' = "cut"
    /\ UNCHANGED <<dStart, dData, dBytes, fn, ret, encVars, decVars>>

---------------------------------------------------------------------------
(* Direct callers of the internal functions *)

\* add(arg[1]) on a new encoder and add(arg[2]) on another
AddCall ==
    /\ fn = "none"
    /\ fn' = "add"
    /\ ret' = <<add(NewExpGolombEncoder, arg[1]), add(NewExpGolombEncoder, arg[2])>>
    /\ UNCHANGED <<arg, encVars, decVars, deltaVars>>

\* s.addZeroBits(k) on the encoder
AddZeroBitsCall(k) ==
    /\ fn = "none"
    /\ ~closed
    /\ fn' = "addZeroBits"
    /\ arg' = k
    /\ enc' = addZeroBits(enc, k)
    /\ UNCHANGED <<ret, written, closed, todo, callErr, decVars, deltaVars>>

\* bitLen(arg)
BitLenCall ==
    /\ fn = "none"
    /\ fn' = "bitLen"
    /\ ret' = bitLen(arg)
    /\ UNCHANGED <<arg, encVars, decVars, deltaVars>>

---------------------------------------------------------------------------
(* Specifications *)

Encode(vs) ==
    \/ \E i \in vs : WriteInt(i)
    \/ \E ilist \in Slices(vs) : Write(ilist)
    \/ Close

Decode ==
    \/ \E k \in 0..MaxBuf : Read(k)
    \/ ReadByte
    \/ ReadFull
    \/ ReadBit

Next == Encode(Values) \/ Open \/ Decode

Spec == Init /\ [][Next]_vars

NextEnc == Encode(EncValues)

SpecEnc == InitEnc /\ [][NextEnc]_vars

NextDec == (\E c \in Bytes : Feed(c)) \/ Decode

SpecDec == InitDec /\ [][NextDec]_vars

NextIO == Encode(Values) \/ SinkBreaks

SpecIO == Init /\ [][NextIO]_vars

NextDelta == DeltaEncodeCall \/ DeltaDecodeCall

SpecDelta == InitDelta /\ [][NextDelta]_vars

NextCode == AddCall

SpecCode == InitCode /\ [][NextCode]_vars

NextCut == DeltaEncodeCall \/ \E j \in 0..(Len(dBytes) - 1) : DeltaDecodeCut(j)

SpecCut == InitCut /\ [][NextCut]_vars

NextLen == BitLenCall

SpecLen == InitLen /\ [][NextLen]_vars

NextZeros ==
    \/ fn = "none" /\ \E i \in EncValues : WriteInt(i)
    \/ \E k \in ZeroRuns : AddZeroBitsCall(k)

SpecZeros == InitZeros /\ [][NextZeros]_vars

---------------------------------------------------------------------------
(* Vocabulary of the properties *)

\* the decoder's source has signalled exhaustion and nothing arrived since
Exhausted == rpc = "idle" /\ lastErr = "EOF" /\ r = <<>>

\* the number of bits needed to write x >= 0 in binary
RECURSIVE BitLength(_)
BitLength(x) == IF x = 0 THEN 0 ELSE 1 + BitLength(x \div 2)

\* the w low bits of x, most significant first
RECURSIVE Bin(_, _)
Bin(x, w) == IF w = 0 THEN <<>> ELSE Append(Bin(x \div 2, w - 1), x % 2)

\* the bits of a byte string, most significant bit of each byte first
BitsOf(p) ==
    SubSeq([i \in 1..(8 * Len(p)) |->
               (p[((i - 1) \div 8) + 1] \div (2 ^ (7 - ((i - 1) % 8)))) % 2],
           1, 8 * Len(p))

\* every bit an encoder has committed so far: the bytes its sink accepted,
\* then the pending bits of the accumulator
Stream(s) == BitsOf(s.out.bytes) \o SubSeq(s.data, 1, egWordBits - s.bitsleft)

Abs(v) == IF v < 0 THEN -v ELSE v

\* the unary prefix length of the codeword of v # 0
PrefixLen(v) == BitLength(Abs(v) + 1) - 1

\* the codeword of v as the format defines it: 1 for zero; otherwise nbits
\* zeros, then (m << 1) | sign in nbits + 2 bits, which is m in nbits + 1
\* bits followed by the sign bit
Codeword(v) ==
    IF v = 0 THEN <<1>>
    ELSE ZeroBits(PrefixLen(v)) \o Bin(Abs(v) + 1, PrefixLen(v) + 1)
           \o <<IF v > 0 THEN 0 ELSE 1>>

\* the number of codeword bits of the items vs
RECURSIVE TotalBits(_)
TotalBits(vs) ==
    IF vs = <<>> THEN 0 ELSE Len(Codeword(Head(vs))) + TotalBits(Tail(vs))

\* the items the step appended to written
Appended == SubSeq(written', Len(written) + 1, Len(written'))

\* C1: a single value v, encoded, closed and decoded until the source is
\* exhausted, comes back as the one-element sequence <<v>>.
C1_SingleRoundTrip ==
    (Len(written) = 1 /\ Exhausted) => decoded = written

\* C2: DeltaDecode(start, DeltaEncode(start, S)) = S for every start and
\* every data slice S.
C2_DeltaRoundTrip ==
    dpc = "decoded" => dRes = dData

\* C3: encoding v appends exactly the codeword of the format to the bit
\* stream: the single bit 1 for zero, otherwise 2*nbits + 2 bits.
C3_CodewordFormat ==
    [][Len(written') = Len(written) + 1 =>
         LET v == written'[Len(written')] IN
           /\ Stream(enc') = Stream(enc) \o Codeword(v)
           /\ Len(Stream(enc')) - Len(Stream(enc))
                = IF v = 0 THEN 1 ELSE 2 * PrefixLen(v) + 2]_vars

\* a general-path value was encoded across a 64-bit word boundary
C3_Witness ==
    /\ ~closed
    /\ Len(written) > 1
    /\ written[Len(written)] = -MaxItem
    /\ Len(enc.out.bytes) = 8
    /\ enc.bitsleft < egWordBits

\* C4: when the remaining shift count reaches 0 in SHIFTING_BITS the decoder
\* goes to READING_SIGN without emitting; in READING_SIGN it consumes one
\* bit, emits val or -val, and returns to COUNTING_ZEROS with zeros = 0.
C4_SignStep ==
    [][(rpc = "loop" /\ dec'.nBits = dec.nBits - 1) =>
         /\ (dec.state = SHIFTING_BITS /\ dec'.zeros = 0) =>
               (dec'.state = READING_SIGN /\ cpos' = cpos)
         /\ dec.state = READING_SIGN =>
               (/\ dec'.state = COUNTING_ZEROS
                /\ dec'.zeros = 0
                /\ cpos' = cpos + 1
                /\ buf'[cpos'] \in {dec.val, -dec.val})
         /\ (cpos' = cpos + 1 /\ buf'[cpos'] # 0) => dec.state = READING_SIGN]_vars

\* C5: k values encoded and closed decode to exactly k values: the padding
\* of Close never yields an extra value.
C5_NoSpuriousValues ==
    Exhausted => Len(decoded) = Len(written)

\* C6: a decoder whose source delivers the bytes in any number of chunks,
\* signalling exhaustion between them, has emitted the same values and holds
\* the same parse state as a decoder given all bytes at once.
C6_Resumable ==
    Exhausted =>
        LET all == readLoop(NewExpGolombDecoder, Flat(fed), <<>>,
                            8 * Len(Flat(fed)) + 1)
        IN decoded = all.out /\ dec = all.d

\* two one-byte chunks; the first ends inside the magnitude bits of the
\* codeword that the second completes
C6_Witness ==
    /\ Exhausted
    /\ fed = <<<<1>>, <<128>>>>
    /\ decoded = <<191>>

\* C7: encoding a ++ b on one encoder gives the bits of a followed directly
\* by the bits of b encoded on its own, wherever the word boundary falls.
C7_Concatenation ==
    [][(~closed' /\ written' # written) =>
         Stream(enc') = Stream(enc) \o Stream(addAll(NewExpGolombEncoder, Appended))]_vars

\* two items appended after a non-empty history, straddling the word boundary
C7_Witness ==
    /\ ~closed
    /\ Len(written) = 62
    /\ todo = 0
    /\ written[61] = 5
    /\ written[62] = -MaxItem
    /\ Len(enc.out.bytes) = 16

\* C8: from every accumulator state of an open encoder the tabulated
\* shortcut of add leaves the encoder (bytes emitted, data, bitsleft) exactly
\* where the general algorithm of the format leaves it, and appends the
\* codewords 1, 0100, 0101, 0110, 0111 for 0, 1, -1, 2, -2.  The format's
\* algorithm for 0 is its special case, the single bit 1; for the other four
\* it is the general path of add.
C8_FastPath ==
    /\ closed \/ \A v \in {1, -1, 2, -2} : add(enc, v) = addGeneral(enc, v)
    /\ closed \/ \A v \in {0, 1, -1, 2, -2} :
                    Stream(add(enc, v)) = Stream(enc) \o Codeword(v)
    /\ Codeword(0) = <<1>>
    /\ Codeword(1) = <<0, 1, 0, 0>>
    /\ Codeword(-1) = <<0, 1, 0, 1>>
    /\ Codeword(2) = <<0, 1, 1, 0>>
    /\ Codeword(-2) = <<0, 1, 1, 1>>
    /\ Stream(add(enc, 0)) = Stream(enc) \o <<1>>
    /\ Stream(add(enc, 1)) = Stream(enc) \o <<0, 1, 0, 0>>
    /\ Stream(add(enc, -1)) = Stream(enc) \o <<0, 1, 0, 1>>
    /\ Stream(add(enc, 2)) = Stream(enc) \o <<0, 1, 1, 0>>
    /\ Stream(add(enc, -2)) = Stream(enc) \o <<0, 1, 1, 1>>

\* a tabulated value was written with three bits left in the accumulator
C8_Witness ==
    /\ Len(written) = 62
    /\ written[62] = -2
    /\ written[61] = 0
    /\ enc.bitsleft = 63
    /\ Len(enc.out.bytes) = 8

\* C9: a failure of the sink's Write or Flush during an encoder operation
\* is reported to the caller of that operation; Close on a failing sink
\* always meets one, in its Flush.
C9_SinkFailurePropagates ==
    (closed /\ enc.out.errs > 0) => callErr

\* C10: Close with p pending bits writes ceil(p/8) bytes, the pending bits
\* followed by zero padding, and nothing when p = 0; the bytes written in
\* all are ceil(total codeword bits / 8).
C10_FinishPadding ==
    [][(~closed /\ closed') =>
         LET p == egWordBits - enc.bitsleft
             nbytes == (p + 7) \div 8
         IN /\ Len(enc'.out.bytes) = Len(enc.out.bytes) + nbytes
            /\ BitsOf(enc'.out.bytes) = Stream(enc) \o ZeroBits(8 * nbytes - p)
            /\ Len(enc'.out.bytes) = (TotalBits(written) + 7) \div 8]_vars

\* Close wrote two bytes of a partial word after one whole word
C10_Witness ==
    /\ closed
    /\ Len(enc.out.bytes) = 10
    /\ TotalBits(written) = 74
    /\ written[Len(written)] = -MaxItem

\* a is a prefix of b (a sequence is a prefix of itself)
IsPrefix(a, b) == Len(a) <= Len(b) /\ SubSeq(b, 1, Len(a)) = a

\* C11: for two distinct items v and w, the codeword the encoder emits for
\* v is not a prefix of the one it emits for w; in particular the two
\* codewords differ.
C11_PrefixFree ==
    (fn = "add" /\ arg[1] # arg[2]) =>
        /\ ~IsPrefix(Stream(ret[1]), Stream(ret[2]))
        /\ Stream(ret[1]) # Stream(ret[2])

\* the codewords of 1 and -1: equal up to the sign bit, neither a prefix of
\* the other
C11_Witness ==
    /\ fn = "add"
    /\ arg = <<1, -1>>
    /\ Stream(ret[1]) = <<0, 1, 0, 0>>
    /\ Stream(ret[2]) = <<0, 1, 0, 1>>

\* C12: Close on an encoder that was given no item writes no byte, and
\* DeltaEncode of an empty slice returns no byte; a Read on a source that
\* never held a byte returns count 0 with io.EOF, and DeltaDecode of no
\* bytes returns the empty slice.
C12_EmptyBoundary ==
    [][/\ (closed' /\ written' = <<>>) => enc'.out.bytes = <<>>
       /\ (rpc = "loop" /\ rpc' = "idle" /\ Flat(fed) = <<>>) =>
             (lastN' = 0 /\ lastErr' = "EOF" /\ decoded' = <<>>)
       /\ \A s \in Starts :
             DeltaEncode(s, <<>>) = <<>> /\ DeltaDecode(s, <<>>) = <<>>]_vars

\* nothing was written, Close was called, and the first Read on the empty
\* output has returned
C12_Witness ==
    /\ closed
    /\ written = <<>>
    /\ enc.out.bytes = <<>>
    /\ fed = <<>>
    /\ rpc = "idle"
    /\ lastN = 0
    /\ lastErr = "EOF"

\* the encoder s after WriteInt(i) for each item i of ilist, first to last
RECURSIVE WriteIntEach(_, _)
WriteIntEach(s, ilist) ==
    IF ilist = <<>> THEN s ELSE WriteIntEach(add(s, Head(ilist)), Tail(ilist))

\* C13: from every encoder state, a call that appends the items b (one
\* Write of the slice b) leaves the accumulator and the sink exactly as
\* WriteInt on each item of b in order leaves them.
C13_WriteIsWriteIntEach ==
    [][(~closed' /\ written' # written) => enc' = WriteIntEach(enc, Appended)]_vars

\* a general-path item and then 5 were appended to 62 items; the pair
\* crosses two word boundaries
C13_Witness ==
    /\ ~closed
    /\ Len(written) = 64
    /\ todo = 0
    /\ written[63] = -MaxItem
    /\ written[64] = 5
    /\ Len(enc.out.bytes) = 16
    /\ enc.bitsleft = 62

\* the number of bits of the source the decoder has processed
BitPos == 8 * (Len(Flat(fed)) - Len(r)) - dec.nBits

\* the number of values Read has emitted, in all calls
Emitted == Len(decoded) + cpos

\* C14: on a stream the encoder produced, whenever the decoder emits its
\* j-th value it has processed exactly the bits of the first j codewords
\* (1 bit for a zero, 2*nbits + 2 bits otherwise) and is back in
\* COUNTING_ZEROS with zeros = 0.
C14_CodewordAligned ==
    [][cpos' = cpos + 1 =>
         /\ Emitted' <= Len(written)
         /\ BitPos' = TotalBits(SubSeq(written, 1, Emitted'))
         /\ dec'.state = COUNTING_ZEROS
         /\ dec'.zeros = 0]_vars

\* the codewords of the items vs, one after the other
RECURSIVE CodeStream(_)
CodeStream(vs) ==
    IF vs = <<>> THEN <<>> ELSE Codeword(Head(vs)) \o CodeStream(Tail(vs))

\* the bits of s not yet handed to the sink
Committed(s, vs) ==
    SubSeq(CodeStream(vs), 8 * Len(s.out.bytes) + 1, Len(CodeStream(vs)))

\* C15: after construction and after every WriteInt, Write and Close,
\* bitsleft is in 1..64, the lowest bitsleft bits of data are zero, and the
\* top 64 - bitsleft bits of data are the codeword bits committed and not
\* yet written to the sink (none once Close has run).
C15_Accumulator ==
    /\ enc.bitsleft \in 1..egWordBits
    /\ \A i \in (egWordBits - enc.bitsleft + 1)..egWordBits : enc.data[i] = 0
    /\ SubSeq(enc.data, 1, egWordBits - enc.bitsleft)
         = IF closed THEN <<>> ELSE Committed(enc, written)

\* after 63 items 0 and the item 5: the prefix zeros of 5 filled the word,
\* which was written, and four bits of its codeword are pending
C15_Witness ==
    /\ ~closed
    /\ Len(written) = 64
    /\ written[64] = 5
    /\ written[63] = 0
    /\ Len(enc.out.bytes) = 8
    /\ enc.bitsleft = 59
    /\ SubSeq(enc.data, 1, 5) = <<0, 1, 1, 0, 0>>

\* what one Read with a buffer that cannot fill returns on decoder d with
\* the bytes src still in its source
OneRead(d, src) == readLoop(d, src, <<>>, d.nBits + 8 * Len(src) + 1).out

\* C16: a Read with a buffer of length n has filled slots 1..cpos only and
\* returns a count in 0..n; once the buffer is full it processes no further
\* bit, and when bits remain it returns (n, nil) with the decoder as the last
\* emitted value left it; so the values returned by any number of Read calls
\* with any buffer lengths, followed by what one more Read with a large
\* buffer returns, are what a single Read with a large buffer returns on a
\* new decoder.
C16_BufferIndependent ==
    [][/\ rpc' = "loop" =>
             (cpos' \in 0..n' /\ \A i \in (cpos' + 1)..n' : buf'[i] = 0)
       /\ (rpc = "loop" /\ rpc' = "idle") => (lastN' = cpos /\ lastN' \in 0..n)
       /\ (rpc = "loop" /\ cpos >= n) => BitPos' = BitPos
       /\ (rpc = "loop" /\ rpc' = "idle" /\ lastErr' = "nil") =>
             (lastN' = n /\ dec' = dec /\ r' = r /\ dec.nBits > 0)
       /\ rpc' = "idle" =>
             decoded' \o OneRead(dec', r') = OneRead(NewExpGolombDecoder, Flat(fed'))]_vars

\* two Read calls with a one-slot buffer have returned 0 and then 1 from
\* the byte 1010 0011; four bits of the byte remain
C16_Witness ==
    /\ rpc = "idle"
    /\ Flat(fed) = <<163>>
    /\ decoded = <<0, 1>>
    /\ lastN = 1
    /\ lastErr = "nil"
    /\ dec.nBits = 4

\* the encoder s after k calls addBits(0, 1) (bitsleft is never 0: the test
\* only keeps the evaluation stack shallow)
RECURSIVE addBitsEach(_, _)
addBitsEach(s, k) ==
    IF k = 0 \/ s.bitsleft = 0 THEN s ELSE addBitsEach(addBits(s, Uint0, 1), k - 1)

\* C17: from every accumulator state and for every k, addZeroBits(k) leaves
\* the sink's bytes, data and bitsleft as k calls addBits(0, 1) leave them,
\* also when k is bitsleft or more and when it spans whole words.
C17_BulkZeros ==
    [][(fn = "none" /\ fn' = "addZeroBits") => enc' = addBitsEach(enc, arg')]_vars

\* 130 zeros were added with one bit left in the accumulator: the word was
\* completed and written, two whole zero words followed, one zero is pending
C17_Witness ==
    /\ fn = "addZeroBits"
    /\ arg = 130
    /\ Len(written) = 63
    /\ Len(enc.out.bytes) = 24
    /\ enc.bitsleft = 63

\* the residuals DeltaEncode encodes for data after start
Residuals(start, data) ==
    [i \in 1..Len(data) |-> data[i] - (IF i = 1 THEN start ELSE data[i - 1])]

\* the bit position where the codeword of the i-th residual ends
CodeEnd(start, data, i) == TotalBits(SubSeq(Residuals(start, data), 1, i))

\* C18: when the bytes given to DeltaDecode end inside the codeword of
\* residual m + 1 (in its zero run, in its magnitude bits, or before its sign
\* bit), DeltaDecode returns the running sums of the first m residuals, which
\* are the first m data values, and nothing for the cut codeword.
C18_NoPartialValue ==
    dpc = "cut" =>
        \A m \in 0..(Len(dData) - 1) :
            (/\ CodeEnd(dStart, dData, m) < 8 * arg
             /\ 8 * arg < CodeEnd(dStart, dData, m + 1)) =>
                dRes = SubSeq(dData, 1, m)

\* C19: nBits stays in 0..8; the decoder takes a byte from the source only
\* when nBits = 0, and it is the next byte; each step either processes no
\* bit and leaves the parse fields alone, or processes exactly the next bit
\* of the byte stream, most significant bit of each byte first; and when
\* the source is exhausted every bit delivered has been processed.
C19_ByteBuffer ==
    [][/\ dec.nBits \in 0..8
       /\ dec'.nBits \in 0..8
       /\ Len(r') < Len(r) =>
             (dec.nBits = 0 /\ dec'.nBits = 8 /\ dec'.b = Head(r) /\ r' = Tail(r))
       /\ BitPos' \in {BitPos, BitPos + 1}
       /\ BitPos' = BitPos + 1 =>
             /\ dec'.nBits = dec.nBits - 1
             /\ dec' = parseBit([dec EXCEPT !.nBits = @ - 1],
                                BitsOf(Flat(fed))[BitPos']).d
       /\ BitPos' = BitPos =>
             <<dec'.state, dec'.val, dec'.zeros>> = <<dec.state, dec.val, dec.zeros>>
       /\ Exhausted' => BitPos' = 8 * Len(Flat(fed'))]_vars

\* two bytes, delivered in two chunks and so read by more than one Read
\* call, have been processed to the last bit
C19_Witness ==
    /\ Exhausted
    /\ fed = <<<<163>>, <<37>>>>
    /\ dec.nBits = 0
    /\ BitPos = 16

\* C20: for 0 <= x <= 2^31 - 1, bitLen(x) is the number of bits of x:
\* 0 for x = 0, and otherwise the n with 2^(n-1) <= x < 2^n, which is
\* floor(log2 x) + 1.
C20_BitLen ==
    fn = "bitLen" =>
        /\ ret = BitLength(arg)
        /\ arg = 0 => ret = 0
        /\ arg > 0 => (ret \in 1..31 /\ arg \div (2 ^ (ret - 1)) = 1)

\* bitLen was called on 2^31 - 1, the m of the largest in-domain magnitude
C20_Witness ==
    /\ fn = "bitLen"
    /\ arg = MaxItem + 1
    /\ ret = 31

====
